---- MODULE Spec2Model ----
(***************************************************************************)
(* Model of the out-of-order pipeline simulator of src/Simulator.py.       *)
(* One run of CPU.start on one program: the state is the CPU object's      *)
(* fields plus the position of the main loop, and every stage of the       *)
(* backward pass (commit, exec2, exec1, issue, rename_dispatch,            *)
(* fetch_decode, check_asserts + log_state) is one action.                 *)
(*                                                                         *)
(* Python lists are sequences (index i of the source is i + 1 here);       *)
(* rf, busy_bit and map_table are functions on 0..63 and 0..31, so that    *)
(* physical and logical register ids keep the values of the source.        *)
(* Python integers are unbounded, and so are the values here: the source   *)
(* applies no width to a register value.                                   *)
(***************************************************************************)
EXTENDS Integers, Sequences, FiniteSets, TLC

\* ---------------------------------------------------------------- constants

NumPhysical == 64
NumLogical == 32
ActiveListSize == 32
IntegerQueueSize == 32
DirSize == 4
CommitWidth == 4
IssueWidth == 4
NumALUs == 4
ExceptionHandlerPC == 65536

\* ------------------------------------------------------------------- bounds

\* Short programs: every sequence of at most MaxLen instructions of InstrSet.
MaxLen == 3
\* Long programs: a chain of MinChain..MaxChain dependent addi, with at most
\* one instruction of the chain replaced by an instruction of InstrSet.
MinChain == 39
MaxChain == 40
\* The position (0-based PC) of the replaced instruction is 0, MidPC or the last.
MidPC == 5
\* Backlog programs: a chain of BacklogChain dependent addi followed by up to
\* MaxBacklog copies of one instruction of InstrSet, which can complete while
\* the chain still holds the head of the Active List.
BacklogChain == 8
MaxBacklog == 6
\* The length of the short programs of FairSpec, the specification under which
\* termination is stated.
MaxLenLive == 2

\* ----------------------------------------------------- programs (the input)

\* An operand token of the input text: "xN" (a register) or "N" (an immediate).
Reg(n) == [reg |-> TRUE, num |-> n]
Imm(n) == [reg |-> FALSE, num |-> n]

RawInstr(op, d, a, b) == [opcode |-> op, dest |-> d, first |-> a, second |-> b]

InstrSet ==
    { RawInstr("addi", Reg(1), Reg(0), Imm(2)),
      RawInstr("add",  Reg(0), Reg(1), Reg(1)),
      RawInstr("sub",  Reg(1), Reg(0), Reg(1)),
      RawInstr("mulu", Reg(1), Reg(1), Reg(1)),
      RawInstr("divu", Reg(1), Reg(0), Reg(1)),
      RawInstr("remu", Reg(0), Reg(1), Reg(0)) }

ChainInstr == RawInstr("addi", Reg(0), Reg(0), Imm(1))

SeqsUpTo(S, n) == UNION { [1..k -> S] : k \in 0..n }

ShortPrograms == SeqsUpTo(InstrSet, MaxLen)

Chain(n) == [i \in 1..n |-> ChainInstr]

\* The chain of n instructions with the instruction at PC k replaced by ins.
ChainWith(n, k, ins) == [Chain(n) EXCEPT ![k + 1] = ins]

LongProgramsOfLen(n) ==
    {Chain(n)} \cup { ChainWith(n, k, ins) : k \in {0, MidPC, n - 1}, ins \in InstrSet }

LongPrograms == UNION { LongProgramsOfLen(n) : n \in MinChain..MaxChain }

BacklogPrograms ==
    { Chain(BacklogChain) \o [i \in 1..m |-> ins] : m \in 1..MaxBacklog, ins \in InstrSet }

Programs == ShortPrograms \cup LongPrograms \cup BacklogPrograms

LivePrograms ==
    SeqsUpTo(InstrSet, MaxLenLive) \cup LongProgramsOfLen(MaxChain) \cup BacklogPrograms

\* --------------------------------------------------------------- the loader

Instruction(pc_, opcode, dest, first, second) ==
    [pc |-> pc_, opcode |-> opcode, dest |-> dest, first |-> first, second |-> second]

\* Simulator.__parse_input_file: the PC is the index in the array, and the
\* opcode addi is stored as add (the immediate is recognised by its token).
parse_input_file(raw) ==
    [i \in 1..Len(raw) |->
        Instruction(i - 1,
                    IF raw[i].opcode = "addi" THEN "add" ELSE raw[i].opcode,
                    raw[i].dest, raw[i].first, raw[i].second)]

\* CPU.extract_number: the number of a token, with or without its letter.
extract_number(tok) == tok.num

\* instruction.second[0].isdigit()
is_immediate(tok) == ~tok.reg

\* -------------------------------------------------------------------- state

VARIABLES
    code,                    \* self.code: the decoded program
    pc,                      \* self.pc
    rf,                      \* self.rf: physical register file
    dir,                     \* self.dir: decoded instruction register
    exception_flag,          \* self.exception_flag
    e_pc,                    \* self.e_pc
    map_table,               \* self.map_table
    free_list,               \* self.free_list
    busy_bit,                \* self.busy_bit
    active_list,             \* self.active_list
    integer_queue,           \* self.integer_queue
    state_log,               \* self.state_log
    ALUs,                    \* self.ALUs: each a shift register <<E1, E2>>
    committed_instructions,  \* self.committed_instructions
    next_is_exception,       \* self.next_is_exception
    stage                    \* the position of CPU.start

vars == <<code, pc, rf, dir, exception_flag, e_pc, map_table, free_list, busy_bit,
          active_list, integer_queue, state_log, ALUs, committed_instructions,
          next_is_exception, stage>>

\* A latch of an ALU holds None (the empty sequence) or one Integer Queue entry.
None == <<>>
Some(e) == <<e>>

ActiveListEntry(pc_, old_dest, logical_dest, done, exception) ==
    [pc |-> pc_, old_dest |-> old_dest, logical_dest |-> logical_dest,
     done |-> done, exception |-> exception]

IntegerQueueEntry(dest_reg, a_rdy, a_tag, a_val, b_rdy, b_tag, b_val, opcode, pc_) ==
    [dest_reg |-> dest_reg, a_rdy |-> a_rdy, a_tag |-> a_tag, a_val |-> a_val,
     b_rdy |-> b_rdy, b_tag |-> b_tag, b_val |-> b_val, opcode |-> opcode, pc |-> pc_]

Min(a, b) == IF a < b THEN a ELSE b

\* Simulator.__init__ and CPU.__init__, for a program of the set P.
InitWith(P) ==
    /\ code \in { parse_input_file(raw) : raw \in P }
    /\ pc = 0
    /\ rf = [i \in 0..NumPhysical - 1 |-> 0]
    /\ dir = <<>>
    /\ exception_flag = FALSE
    /\ e_pc = 0
    /\ map_table = [i \in 0..NumLogical - 1 |-> i]
    /\ free_list = [i \in 1..NumPhysical - NumLogical |-> NumLogical + i - 1]
    /\ busy_bit = [i \in 0..NumPhysical - 1 |-> FALSE]
    /\ active_list = <<>>
    /\ integer_queue = <<>>
    /\ state_log = <<>>
    /\ ALUs = [k \in 1..NumALUs |-> <<None, None>>]
    /\ committed_instructions = 0
    /\ next_is_exception = FALSE
    /\ stage = "start"

Init == InitWith(Programs)

\* ---------------------------------------------------------------------- ALU

\* Python's // and % (floor division; the remainder has the divisor's sign).
PyFloorDiv(a, b) == IF b > 0 THEN a \div b ELSE (0 - a) \div (0 - b)
PyMod(a, b) == a - b * PyFloorDiv(a, b)

\* ALU.pop_result, the exception an executed instruction raises.
alu_exception(e) == e.opcode \in {"divu", "remu"} /\ e.b_val = 0

\* ALU.pop_result, the result of the instruction in the second latch.
alu_result(e) ==
    CASE e.opcode \in {"add", "addi"} -> e.a_val + e.b_val
      [] e.opcode = "sub"  -> e.a_val - e.b_val
      [] e.opcode = "mulu" -> e.a_val * e.b_val
      [] e.opcode = "divu" -> IF e.b_val = 0 THEN 0 ELSE PyFloorDiv(e.a_val, e.b_val)
      [] e.opcode = "remu" -> IF e.b_val = 0 THEN 0 ELSE PyMod(e.a_val, e.b_val)

\* ALU.reset
alu_reset == <<None, None>>

\* Mutant: the tick copies the first latch into the second without emptying it.
alu_tick_keep(sr) == <<sr[1], sr[1]>>

\* ALU.tick (its assertion is checked by exec1)
alu_tick(sr) == <<None, sr[1]>>

\* ------------------------------------------------------------------- stages

\* CPU.start, line 382: the initial snapshot.
Snapshot ==
    [PC |-> pc,
     PhysicalRegisterFile |-> rf,
     DecodedPCs |-> [i \in 1..Len(dir) |-> dir[i].pc],
     ExceptionPC |-> e_pc,
     Exception |-> exception_flag,
     RegisterMapTable |-> map_table,
     FreeList |-> free_list,
     BusyBitTable |-> busy_bit,
     ActiveList |-> active_list,
     IntegerQueue |-> integer_queue]

Start ==
    /\ stage = "start"
    /\ state_log' = Append(state_log, Snapshot)
    /\ stage' = "commit"
    /\ UNCHANGED <<code, pc, rf, dir, exception_flag, e_pc, map_table, free_list,
                   busy_bit, active_list, integer_queue, ALUs,
                   committed_instructions, next_is_exception>>

\* -- commit, normal mode (lines 302-320)

MinOf(S) == CHOOSE x \in S : \A y \in S : x <= y

\* Mutant: the scan does not stop at an entry that is not done.
RetireCountNoBarrier(al) ==
    LET lim == Min(CommitWidth, Len(al))
        stop == { i \in 1..lim : al[i].done /\ al[i].exception }
    IN  IF stop = {} THEN lim ELSE MinOf(stop) - 1

\* Mutant: the scan looks at the head entry only.
RetireCountHeadOnly(al) ==
    LET lim == Min(1, Len(al))
        stop == { i \in 1..lim : ~al[i].done \/ al[i].exception }
    IN  IF stop = {} THEN lim ELSE MinOf(stop) - 1

\* The number of head entries the scan retires: it stops at the first entry
\* that is not done or that raised an exception, and after CommitWidth entries.
RetireCount(al) ==
    LET lim == Min(CommitWidth, Len(al))
        stop == { i \in 1..lim : ~al[i].done \/ al[i].exception }
    IN  IF stop = {} THEN lim ELSE MinOf(stop) - 1

\* Whether the scan stopped at an entry that is done and raised an exception.
ExceptionAtHead(al) ==
    LET k == RetireCount(al)
    IN  /\ k < Min(CommitWidth, Len(al))
        /\ al[k + 1].done
        /\ al[k + 1].exception

\* Mutant: retire frees the logical destination instead of old_dest.
OldDestsLogical(al, k) == [i \in 1..k |-> al[i].logical_dest]

OldDests(al, k) == [i \in 1..k |-> al[i].old_dest]

\* Mutant: rollback frees the register but leaves the Map Table as it is.
RollbackOneKeepMap(st) ==
    LET last_instr == st.al[Len(st.al)]
        curr_physical == st.map[last_instr.logical_dest]
    IN  [al   |-> SubSeq(st.al, 1, Len(st.al) - 1),
         map  |-> st.map,
         free |-> Append(st.free, curr_physical),
         busy |-> [st.busy EXCEPT ![curr_physical] = FALSE]]

\* Mutant: rollback frees the old destination of the entry instead of the
\* register the Map Table holds for it.
RollbackOneFreeOld(st) ==
    LET last_instr == st.al[Len(st.al)]
        curr_physical == st.map[last_instr.logical_dest]
    IN  [al   |-> SubSeq(st.al, 1, Len(st.al) - 1),
         map  |-> [st.map EXCEPT ![last_instr.logical_dest] = last_instr.old_dest],
         free |-> Append(st.free, last_instr.old_dest),
         busy |-> [st.busy EXCEPT ![curr_physical] = FALSE]]

\* -- commit, exception mode (lines 329-336): one tail entry rolled back.
RollbackOne(st) ==
    LET last_instr == st.al[Len(st.al)]
        curr_physical == st.map[last_instr.logical_dest]
    IN  [al   |-> SubSeq(st.al, 1, Len(st.al) - 1),
         map  |-> [st.map EXCEPT ![last_instr.logical_dest] = last_instr.old_dest],
         free |-> Append(st.free, curr_physical),
         busy |-> [st.busy EXCEPT ![curr_physical] = FALSE]]

RECURSIVE Rollback(_, _)
\* (The set binds v to the value of st, so that st is evaluated once.)
Rollback(st, n) ==
    IF n = 0 THEN st
    ELSE Rollback(CHOOSE r \in { RollbackOne(v) : v \in {st} } : TRUE, n - 1)

\* Mutant: the run stops one instruction early.
NormalStopEarly(committed, ncode) == committed + 1 >= ncode

\* Line 319: the run is complete.
NormalStop(committed, ncode) == committed = ncode

\* Mutant: normal-mode commit raises the Exception flag in the cycle in which
\* it finds the faulting head, instead of marking it pending.
CommitNormalOnePhase ==
    LET k == RetireCount(active_list)
    IN  /\ exception_flag' = ExceptionAtHead(active_list)
        /\ free_list' = free_list \o OldDests(active_list, k)
        /\ committed_instructions' = committed_instructions + k
        /\ active_list' = SubSeq(active_list, k + 1, Len(active_list))
        /\ stage' = IF NormalStop(committed_instructions', Len(code))
                    THEN "final_log" ELSE "exec2"
        /\ UNCHANGED <<next_is_exception, e_pc, ALUs, integer_queue, map_table,
                       busy_bit>>

CommitNormal ==
    LET k == RetireCount(active_list)
    IN  /\ next_is_exception' = ExceptionAtHead(active_list)
        /\ free_list' = free_list \o OldDests(active_list, k)
        /\ committed_instructions' = committed_instructions + k
        /\ active_list' = SubSeq(active_list, k + 1, Len(active_list))
        /\ stage' = IF NormalStop(committed_instructions', Len(code))
                    THEN "final_log" ELSE "exec2"
        /\ UNCHANGED <<exception_flag, e_pc, ALUs, integer_queue, map_table, busy_bit>>

CommitException ==
    LET st == Rollback([al |-> active_list, map |-> map_table,
                        free |-> free_list, busy |-> busy_bit],
                       Min(CommitWidth, Len(active_list)))
    IN  /\ IF next_is_exception
           THEN /\ exception_flag' = TRUE
                /\ next_is_exception' = FALSE
                /\ e_pc' = active_list[1].pc
                /\ ALUs' = [k \in 1..NumALUs |-> alu_reset]
                /\ integer_queue' = <<>>
           ELSE UNCHANGED <<exception_flag, next_is_exception, e_pc, ALUs, integer_queue>>
        /\ active_list' = st.al
        /\ map_table' = st.map
        /\ free_list' = st.free
        /\ busy_bit' = st.busy
        /\ stage' = IF Len(st.al) = 0 THEN "final_log" ELSE "exec2"
        /\ UNCHANGED committed_instructions

\* CPU.commit, and the break of CPU.start when it returns True.
Commit ==
    /\ stage = "commit"
    /\ IF ~next_is_exception /\ ~exception_flag THEN CommitNormal ELSE CommitException
    /\ UNCHANGED <<code, pc, rf, dir, state_log>>

\* -- exec2 (lines 253-272)

\* Lines 257-261: the first Active List entry with the instruction's PC.
MarkDone(al, pc_, exception) ==
    LET hit == { i \in 1..Len(al) : al[i].pc = pc_ }
    IN  IF hit = {} THEN al
        ELSE [al EXCEPT ![MinOf(hit)] = [@ EXCEPT !.done = TRUE, !.exception = exception]]

\* Mutant: the forwarding path reaches operand A only.
ForwardEntryOnlyA(el, dest_reg, result) ==
    IF el.a_tag = dest_reg
    THEN [el EXCEPT !.a_val = result, !.a_rdy = TRUE]
    ELSE el

\* Lines 263-269: the forwarding path into one Integer Queue entry.
ForwardEntry(el, dest_reg, result) ==
    LET a == IF el.a_tag = dest_reg
             THEN [el EXCEPT !.a_val = result, !.a_rdy = TRUE]
             ELSE el
    IN  IF el.b_tag = dest_reg
        THEN [a EXCEPT !.b_val = result, !.b_rdy = TRUE]
        ELSE a

\* Mutant: Exec-2 writes the register file but forwards nothing into the queue.
ForwardNothing(iq, dest_reg, result) == iq

Forward(iq, dest_reg, result) ==
    [i \in 1..Len(iq) |-> ForwardEntry(iq[i], dest_reg, result)]

\* Mutant: writeback leaves the busy bit set.
WriteBackBusyKeep(busy, dest_reg) == busy

\* Line 271: the busy bit of the written register.
WriteBackBusy(busy, dest_reg) == [busy EXCEPT ![dest_reg] = FALSE]

\* The body of the loop over the ALUs, for ALU k.
Exec2One(st, k) ==
    IF st.alus[k][2] = None THEN st
    ELSE LET instruction == st.alus[k][2][1]
             result == alu_result(instruction)
             exception == alu_exception(instruction)
         IN  [alus |-> [st.alus EXCEPT ![k] = <<@[1], None>>],
              al   |-> MarkDone(st.al, instruction.pc, exception),
              iq   |-> Forward(st.iq, instruction.dest_reg, result),
              busy |-> WriteBackBusy(st.busy, instruction.dest_reg),
              rf   |-> [st.rf EXCEPT ![instruction.dest_reg] = result]]

RECURSIVE Exec2Loop(_, _)
Exec2Loop(st, k) ==
    IF k > NumALUs THEN st
    ELSE Exec2Loop(CHOOSE r \in { Exec2One(v, k) : v \in {st} } : TRUE, k + 1)

\* CPU.exec2
Exec2 ==
    /\ stage = "exec2"
    /\ LET st == Exec2Loop([alus |-> ALUs, al |-> active_list, iq |-> integer_queue,
                            busy |-> busy_bit, rf |-> rf], 1)
       IN  /\ ALUs' = st.alus
           /\ active_list' = st.al
           /\ integer_queue' = st.iq
           /\ busy_bit' = st.busy
           /\ rf' = st.rf
    /\ stage' = "exec1"
    /\ UNCHANGED <<code, pc, dir, exception_flag, e_pc, map_table, free_list,
                   state_log, committed_instructions, next_is_exception>>

\* CPU.exec1: every ALU ticks; ALU.tick asserts that its second latch is empty.
Exec1 ==
    /\ stage = "exec1"
    /\ IF \A k \in 1..NumALUs : ALUs[k][2] = None
       THEN /\ ALUs' = [k \in 1..NumALUs |-> alu_tick(ALUs[k])]
            /\ stage' = "issue"
       ELSE /\ stage' = "AssertionError"
            /\ UNCHANGED ALUs
    /\ UNCHANGED <<code, pc, rf, dir, exception_flag, e_pc, map_table, free_list,
                   busy_bit, active_list, integer_queue, state_log,
                   committed_instructions, next_is_exception>>

\* -- issue (lines 221-232)

\* Mutant: an entry counts as ready as soon as its operand A is.
ReadyIdsOnlyA(iq) == { i \in 1..Len(iq) : iq[i].a_rdy }

\* The indices of the entries with both operands ready, in queue order.
ReadyIds(iq) == { i \in 1..Len(iq) : iq[i].a_rdy /\ iq[i].b_rdy }

\* The indices issued: the first IssueWidth ready ones.
IssuedIds(iq) ==
    { i \in ReadyIds(iq) : Cardinality({ j \in ReadyIds(iq) : j < i }) < IssueWidth }

\* The k-th issued index, k = 1..
NthIssued(iq, k) ==
    CHOOSE i \in IssuedIds(iq) : Cardinality({ j \in IssuedIds(iq) : j < i }) = k - 1

\* Mutant: once something is issued, the whole queue is dropped.
RemoveIdsAll(iq, ids, i) == IF ids = {} THEN iq ELSE <<>>

RECURSIVE RemoveIds(_, _, _)
RemoveIds(iq, ids, i) ==
    IF i > Len(iq) THEN <<>>
    ELSE IF i \in ids THEN RemoveIds(iq, ids, i + 1)
    ELSE <<iq[i]>> \o RemoveIds(iq, ids, i + 1)

\* CPU.issue; ALU.push_instruction asserts that the first latch is empty.
Issue ==
    /\ stage = "issue"
    /\ LET ids == IssuedIds(integer_queue)
           n == Cardinality(ids)
       IN  IF \A k \in 1..n : ALUs[k][1] = None
           THEN /\ ALUs' = [k \in 1..NumALUs |->
                              IF k <= n
                              THEN <<Some(integer_queue[NthIssued(integer_queue, k)]),
                                     ALUs[k][2]>>
                              ELSE ALUs[k]]
                /\ integer_queue' = RemoveIds(integer_queue, ids, 1)
                /\ stage' = "rename_dispatch"
           ELSE /\ stage' = "AssertionError"
                /\ UNCHANGED <<ALUs, integer_queue>>
    /\ UNCHANGED <<code, pc, rf, dir, exception_flag, e_pc, map_table, free_list,
                   busy_bit, active_list, state_log, committed_instructions,
                   next_is_exception>>

\* -- rename_dispatch (lines 183-209)

\* Lines 185-187: whether the stage dispatches the whole DIR.
CanDispatch(ndir, nal, niq, nfree) ==
    ~(\/ ndir > ActiveListSize - nal
      \/ ndir > IntegerQueueSize - niq
      \/ ndir > nfree)

\* Mutant: the new Active List entry is put at the head instead of the tail.
DispatchOneAtHead(st) ==
    LET instruction == Head(st.dir)
        physical_reg == Head(st.free)
        logical_dest == extract_number(instruction.dest)
        old_physical_dest == st.map[logical_dest]
        first_op == extract_number(instruction.first)
        a_rdy == ~st.busy[st.map[first_op]]
        a_tag == st.map[first_op]
        a_val == rf[a_tag]
        second_op == extract_number(instruction.second)
        imm == is_immediate(instruction.second)
        b_rdy == IF ~imm THEN ~st.busy[st.map[second_op]] ELSE TRUE
        b_tag == IF ~imm THEN st.map[second_op] ELSE 0
        b_val == IF ~imm THEN rf[b_tag] ELSE second_op
    IN  [dir  |-> Tail(st.dir),
         free |-> Tail(st.free),
         map  |-> [st.map EXCEPT ![logical_dest] = physical_reg],
         busy |-> [st.busy EXCEPT ![physical_reg] = TRUE],
         iq   |-> Append(st.iq, IntegerQueueEntry(physical_reg, a_rdy, a_tag, a_val,
                                                  b_rdy, b_tag, b_val,
                                                  instruction.opcode, instruction.pc)),
         al   |-> <<ActiveListEntry(instruction.pc, old_physical_dest,
                                    logical_dest, FALSE, FALSE)>> \o st.al]

\* Lines 190-209: one instruction renamed and dispatched.
DispatchOne(st) ==
    LET instruction == Head(st.dir)
        physical_reg == Head(st.free)
        logical_dest == extract_number(instruction.dest)
        old_physical_dest == st.map[logical_dest]
        first_op == extract_number(instruction.first)
        a_rdy == ~st.busy[st.map[first_op]]
        a_tag == st.map[first_op]
        a_val == rf[a_tag]
        second_op == extract_number(instruction.second)
        imm == is_immediate(instruction.second)
        b_rdy == IF ~imm THEN ~st.busy[st.map[second_op]] ELSE TRUE
        b_tag == IF ~imm THEN st.map[second_op] ELSE 0
        b_val == IF ~imm THEN rf[b_tag] ELSE second_op
    IN  [dir  |-> Tail(st.dir),
         free |-> Tail(st.free),
         map  |-> [st.map EXCEPT ![logical_dest] = physical_reg],
         busy |-> [st.busy EXCEPT ![physical_reg] = TRUE],
         iq   |-> Append(st.iq, IntegerQueueEntry(physical_reg, a_rdy, a_tag, a_val,
                                                  b_rdy, b_tag, b_val,
                                                  instruction.opcode, instruction.pc)),
         al   |-> Append(st.al, ActiveListEntry(instruction.pc, old_physical_dest,
                                                logical_dest, FALSE, FALSE))]

\* Mutant: only the first instruction of the DIR is dispatched.
DispatchFirstOnly(st, n) == IF n = 0 THEN st ELSE DispatchOne(st)

RECURSIVE Dispatch(_, _)
Dispatch(st, n) ==
    IF n = 0 THEN st
    ELSE Dispatch(CHOOSE r \in { DispatchOne(v) : v \in {st} } : TRUE, n - 1)

\* CPU.rename_dispatch
RenameDispatch ==
    /\ stage = "rename_dispatch"
    /\ IF exception_flag
          \/ ~CanDispatch(Len(dir), Len(active_list), Len(integer_queue), Len(free_list))
       THEN UNCHANGED <<dir, free_list, map_table, busy_bit, integer_queue, active_list>>
       ELSE LET st == Dispatch([dir |-> dir, free |-> free_list, map |-> map_table,
                                busy |-> busy_bit, iq |-> integer_queue,
                                al |-> active_list], Len(dir))
            IN  /\ dir' = st.dir
                /\ free_list' = st.free
                /\ map_table' = st.map
                /\ busy_bit' = st.busy
                /\ integer_queue' = st.iq
                /\ active_list' = st.al
    /\ stage' = "fetch_decode"
    /\ UNCHANGED <<code, pc, rf, exception_flag, e_pc, state_log, ALUs,
                   committed_instructions, next_is_exception>>

\* -- fetch_decode (lines 162-168)

\* Mutant: the DIR is filled one past its size.
FetchCountOffByOne(ndir, ncode, pc_) == Min(DirSize + 1 - ndir, ncode - pc_)

\* Line 166: the number of instructions fetched.
FetchCount(ndir, ncode, pc_) == Min(DirSize - ndir, ncode - pc_)

FetchDecode ==
    /\ stage = "fetch_decode"
    /\ IF exception_flag
       THEN /\ pc' = ExceptionHandlerPC
            /\ dir' = <<>>
       ELSE LET n == FetchCount(Len(dir), Len(code), pc)
            IN  /\ dir' = dir \o [i \in 1..n |-> code[pc + i]]
                /\ pc' = IF n > 0 THEN pc + n ELSE pc
    /\ stage' = "check_asserts"
    /\ UNCHANGED <<code, rf, exception_flag, e_pc, map_table, free_list, busy_bit,
                   active_list, integer_queue, state_log, ALUs,
                   committed_instructions, next_is_exception>>

\* CPU.check_asserts
check_asserts ==
    /\ Len(active_list) <= ActiveListSize
    /\ Len(integer_queue) <= IntegerQueueSize
    /\ Len(dir) <= DirSize

\* CPU.start, lines 392-393: the end of a cycle.
CheckAndLog ==
    /\ stage = "check_asserts"
    /\ IF check_asserts
       THEN /\ state_log' = Append(state_log, Snapshot)
            /\ stage' = "commit"
       ELSE /\ stage' = "AssertionError"
            /\ UNCHANGED state_log
    /\ UNCHANGED <<code, pc, rf, dir, exception_flag, e_pc, map_table, free_list,
                   busy_bit, active_list, integer_queue, ALUs,
                   committed_instructions, next_is_exception>>

\* Mutant: the loop ends without the snapshot of line 394.
FinalLogSkip ==
    /\ stage = "final_log"
    /\ stage' = "done"
    /\ UNCHANGED <<code, pc, rf, dir, exception_flag, e_pc, map_table, free_list,
                   busy_bit, active_list, integer_queue, state_log, ALUs,
                   committed_instructions, next_is_exception>>

\* CPU.start, line 394: the snapshot after the loop.
FinalLog ==
    /\ stage = "final_log"
    /\ state_log' = Append(state_log, Snapshot)
    /\ stage' = "done"
    /\ UNCHANGED <<code, pc, rf, dir, exception_flag, e_pc, map_table, free_list,
                   busy_bit, active_list, integer_queue, ALUs,
                   committed_instructions, next_is_exception>>

Next ==
    \/ Start
    \/ Commit
    \/ Exec2
    \/ Exec1
    \/ Issue
    \/ RenameDispatch
    \/ FetchDecode
    \/ CheckAndLog
    \/ FinalLog

Spec == Init /\ [][Next]_vars

\* The loop of CPU.start runs without pause until it breaks.
FairSpec == InitWith(LivePrograms) /\ [][Next]_vars /\ WF_vars(Next)

\* =================================================================== claims

\* The states a snapshot is taken of: log_state has just run.
EndOfCycle == stage \in {"commit", "done"}

\* -- reference: sequential in-program-order execution from the reset state.

SeqStep(regs, ins) ==
    LET a == regs[extract_number(ins.first)]
        b == IF is_immediate(ins.second)
             THEN extract_number(ins.second)
             ELSE regs[extract_number(ins.second)]
    IN  [regs EXCEPT ![extract_number(ins.dest)] =
            alu_result([opcode |-> ins.opcode, a_val |-> a, b_val |-> b])]

\* The logical registers after the first n instructions of c.
RECURSIVE SeqRegs(_, _)
SeqRegs(c, n) ==
    IF n = 0 THEN [r \in 0..NumLogical - 1 |-> 0]
    ELSE SeqStep(SeqRegs(c, n - 1), c[n])

\* The value the instruction at PC k writes to its destination.
SeqValue(c, k) == SeqRegs(c, k + 1)[extract_number(c[k + 1].dest)]

\* -- reference: renaming in program order from the reset state, each
\* instruction retired (its old destination freed) right after it is renamed.

RECURSIVE RenameState(_, _)
RenameState(c, n) ==
    IF n = 0
    THEN [map  |-> [r \in 0..NumLogical - 1 |-> r],
          free |-> [i \in 1..NumPhysical - NumLogical |-> NumLogical + i - 1]]
    ELSE LET st == RenameState(c, n - 1)
             ld == extract_number(c[n].dest)
         IN  [map  |-> [st.map EXCEPT ![ld] = Head(st.free)],
              free |-> Append(Tail(st.free), st.map[ld])]

\* The Map Table after renaming instructions 0..n-1 only.
RenameMap(c, n) == RenameState(c, n).map

\* The physical destination of the instruction at PC k.
AllocOf(c, k) == Head(RenameState(c, k).free)

\* C1: every committed instruction wrote to its physical destination the
\* opcode applied to the values its operands have under sequential execution
\* (checked when Commit retires it, its destination still holding the value
\* Exec-2 wrote), and when the run ends rf[map_table[r]] is the value r has
\* after sequentially executing exactly the committed instructions.
C1_ForwardingSound ==
    [][ /\ (stage = "commit" /\ ~next_is_exception /\ ~exception_flag) =>
             \A i \in 1..(committed_instructions' - committed_instructions) :
                 rf[AllocOf(code, active_list[i].pc)] = SeqValue(code, active_list[i].pc)
        /\ stage' = "done" =>
             \A r \in 0..NumLogical - 1 :
                 rf'[map_table'[r]] = SeqRegs(code, committed_instructions')[r]
      ]_vars

\* C2: whenever the Exception flag is true, ExceptionPC is the number of
\* committed instructions and no entry older than it is left in the Active
\* List; once rollback has emptied the Active List, the Map Table is the one
\* obtained by renaming only instructions 0..ExceptionPC-1 from the reset state.
C2_ExceptionPrecision ==
    exception_flag =>
        /\ e_pc = committed_instructions
        /\ \A i \in 1..Len(active_list) : active_list[i].pc >= e_pc
        /\ active_list = <<>> => map_table = RenameMap(code, e_pc)

\* A run that faulted beyond the first 32 instructions has been rolled back.
C2_Witness ==
    /\ stage = "done"
    /\ exception_flag
    /\ active_list = <<>>
    /\ e_pc > NumLogical

\* C3: the instructions Commit retires in one cycle are the first k entries of
\* the Active List, k <= 4, with PCs committed, committed+1, ...; each is done
\* and raised no exception; so the n-th retired instruction has PC n-1.
C3_InOrderCommit ==
    [][ stage = "commit" =>
          LET k == committed_instructions' - committed_instructions
          IN  /\ k \in 0..CommitWidth
              /\ k <= Len(active_list)
              /\ \A i \in 1..k :
                    /\ active_list[i].done
                    /\ ~active_list[i].exception
                    /\ active_list[i].pc = committed_instructions + i - 1
              /\ k > 0 => active_list' = SubSeq(active_list, k + 1, Len(active_list))
      ]_vars

\* Commit has retired instructions, four in its last cycle, and now waits at a
\* head that is done with more done entries behind it than one cycle retires.
C3_Witness ==
    /\ stage = "exec2"
    /\ committed_instructions > BacklogChain
    /\ Len(active_list) > 0
    /\ Len(state_log) > 0
    /\ Len(state_log[Len(state_log)].ActiveList) = Len(active_list) + CommitWidth
    /\ active_list[1].done

\* C4: every snapshot of the log with Exception=true has PC=0x10000 and an
\* empty DIR.
C4_ExceptionSnapshots ==
    \A i \in 1..Len(state_log) :
        state_log[i].Exception =>
            /\ state_log[i].PC = ExceptionHandlerPC
            /\ state_log[i].DecodedPCs = <<>>

\* C5: the loop of CPU.start eventually stops, and it stops only with every
\* instruction committed, no exception and an empty Active List, or with the
\* Exception flag set and an empty Active List.
C5_Termination ==
    /\ <>(stage = "done")
    /\ [](stage \in {"final_log", "done"} =>
            \/ /\ committed_instructions = Len(code)
               /\ ~exception_flag
               /\ active_list = <<>>
            \/ /\ exception_flag
               /\ active_list = <<>>)

\* A long program has run to completion although Rename&Dispatch stalled on a
\* full Active List on the way (the log holds a snapshot with 32 entries).
C5_Witness ==
    /\ stage = "done"
    /\ ~exception_flag
    /\ committed_instructions = Len(code)
    /\ \E i \in 1..Len(state_log) :
          /\ Len(state_log[i].ActiveList) = ActiveListSize
          /\ Len(state_log[i].DecodedPCs) = DirSize

\* C6: every value in the physical register file and every operand value of
\* an Integer Queue entry is a 64-bit unsigned number.
IsU64(v) == v >= 0 /\ (v \div 1073741824) \div 1073741824 < 16

C6_Unsigned64 ==
    /\ \A p \in 0..NumPhysical - 1 : IsU64(rf[p])
    /\ \A i \in 1..Len(integer_queue) :
          IsU64(integer_queue[i].a_val) /\ IsU64(integer_queue[i].b_val)

\* -- the physical ids held by each structure, as sequences.
MapIds == [i \in 1..NumLogical |-> map_table[i - 1]]
OldDestIds == [i \in 1..Len(active_list) |-> active_list[i].old_dest]
QueueDestIds == [i \in 1..Len(integer_queue) |-> integer_queue[i].dest_reg]

RECURSIVE LatchDestIds(_)
LatchDestIds(k) ==
    IF k > NumALUs THEN <<>>
    ELSE [i \in 1..Len(ALUs[k][1]) |-> ALUs[k][1][i].dest_reg]
         \o [i \in 1..Len(ALUs[k][2]) |-> ALUs[k][2][i].dest_reg]
         \o LatchDestIds(k + 1)

InFlightDestIds == QueueDestIds \o LatchDestIds(1)

Range(f) == { f[i] : i \in DOMAIN f }

\* Every id of 0..63 occurs exactly once in ids.
IsPartition(ids) == Len(ids) = NumPhysical /\ Range(ids) = 0..NumPhysical - 1

\* C7 as stated: Free List, Map Table, old_dest fields and the destinations
\* in the Integer Queue and the ALUs together hold every id exactly once.
C7_I2_Original ==
    EndOfCycle => IsPartition(free_list \o MapIds \o OldDestIds \o InFlightDestIds)

\* C7 amended: Free List, Map Table and old_dest fields together hold every id
\* exactly once, and every destination in the Integer Queue or in flight in an
\* ALU is among the Map Table values and old_dest fields, not in the Free List.
C7_I2_Amended ==
    EndOfCycle =>
        /\ IsPartition(free_list \o MapIds \o OldDestIds)
        /\ Range(InFlightDestIds) \subseteq Range(MapIds) \cup Range(OldDestIds)
        /\ Cardinality(Range(InFlightDestIds)) = Len(InFlightDestIds)

\* Ids recycled through the Free List are in use again, with instructions in
\* the Integer Queue and in the ALUs.
C7_Witness ==
    /\ EndOfCycle
    /\ committed_instructions > 0
    /\ integer_queue # <<>>
    /\ LatchDestIds(1) # <<>>
    /\ \E i \in 1..Len(integer_queue) : integer_queue[i].dest_reg < NumLogical

\* C8: where check_asserts runs and at the end of every cycle, |DIR| <= 4,
\* |ActiveList| <= 32 and |IntegerQueue| <= 32, and no assertion has failed.
C8_CapacityBounds ==
    /\ (stage = "check_asserts" \/ EndOfCycle) => check_asserts
    /\ stage # "AssertionError"

\* The Active List is full and the DIR is full and waits.
C8_Witness ==
    /\ EndOfCycle
    /\ Len(active_list) = ActiveListSize
    /\ Len(dir) = DirSize
    /\ Len(integer_queue) >= ActiveListSize - CommitWidth

\* C9: at the end of every cycle busy_bit[p] is true exactly for the physical
\* destinations of the Active List entries that are not done; when the run
\* ends no busy bit is set.
PendingDests ==
    { AllocOf(code, active_list[i].pc) : i \in { j \in 1..Len(active_list) :
                                                  ~active_list[j].done } }

C9_BusyBits ==
    EndOfCycle =>
        /\ { p \in 0..NumPhysical - 1 : busy_bit[p] } = PendingDests
        /\ stage = "done" => \A p \in 0..NumPhysical - 1 : ~busy_bit[p]

\* The machine is draining, with entries left that never wrote back.
C9_Witness ==
    /\ EndOfCycle
    /\ exception_flag
    /\ \E i \in 1..Len(active_list) : ~active_list[i].done
    /\ \E i \in 1..Len(active_list) : active_list[i].done

\* C10: at the end of every cycle, an Integer Queue entry whose operand A is
\* not ready has a busy a_tag, and one whose operand B is a register and not
\* ready has a busy b_tag.
OperandBIsRegister(q) == ~is_immediate(code[q.pc + 1].second)

C10_I4 ==
    EndOfCycle =>
        \A i \in 1..Len(integer_queue) :
            LET q == integer_queue[i]
            IN  /\ ~q.a_rdy => busy_bit[q.a_tag]
                /\ (OperandBIsRegister(q) /\ ~q.b_rdy) => busy_bit[q.b_tag]

\* Entries wait on operand A and on a register operand B after a writeback.
C10_Witness ==
    /\ EndOfCycle
    /\ \E p \in 0..NumPhysical - 1 : rf[p] # 0
    /\ \E i \in 1..Len(integer_queue) : ~integer_queue[i].a_rdy
    /\ \E i \in 1..Len(integer_queue) :
          OperandBIsRegister(integer_queue[i]) /\ ~integer_queue[i].b_rdy

\* C11 (I5): at the end of every cycle the PCs of the Active List entries,
\* read from head to tail, are strictly increasing.
C11_I5 ==
    EndOfCycle =>
        \A i \in 1..Len(active_list) - 1 : active_list[i].pc < active_list[i + 1].pc

\* Entries were appended by dispatch, retired at the head and rolled back at
\* the tail, and several are left.
C11_Witness ==
    /\ EndOfCycle
    /\ exception_flag
    /\ committed_instructions > 0
    /\ Len(active_list) > CommitWidth
    /\ Len(state_log) > 1
    /\ Len(state_log[Len(state_log) - 1].ActiveList) = Len(active_list) + CommitWidth

\* The reset snapshot: PC = 0, no busy bit, Free List = 32..63, Map Table =
\* 0..31, DIR, Active List and Integer Queue empty, no exception.
IsResetSnapshot(s) ==
    /\ s.PC = 0
    /\ \A p \in 0..NumPhysical - 1 : ~s.BusyBitTable[p]
    /\ s.FreeList = [i \in 1..NumPhysical - NumLogical |-> NumLogical + i - 1]
    /\ s.RegisterMapTable = [r \in 0..NumLogical - 1 |-> r]
    /\ s.DecodedPCs = <<>>
    /\ s.ActiveList = <<>>
    /\ s.IntegerQueue = <<>>
    /\ ~s.Exception
    /\ s.ExceptionPC = 0

\* C12 as stated: the log of the run of the empty program holds exactly one
\* snapshot, the reset snapshot.
C12_EmptyLog_Original ==
    (code = <<>> /\ stage = "done") =>
        /\ Len(state_log) = 1
        /\ IsResetSnapshot(state_log[1])

\* C12 amended: the log of the run of the empty program holds exactly two
\* snapshots, the initial one and the one taken after the loop, and both are
\* the reset snapshot; no stage other than Commit runs.
C12_EmptyLog_Amended ==
    /\ (code = <<>> /\ stage = "done") =>
          /\ Len(state_log) = 2
          /\ IsResetSnapshot(state_log[1])
          /\ IsResetSnapshot(state_log[2])
    /\ code = <<>> => stage \in {"start", "commit", "final_log", "done"}

\* The run of the empty program has ended.
C12_Witness ==
    /\ code = <<>>
    /\ stage = "done"

C14_ImmediateKept ==
    \A i \in 1..Len(integer_queue) :
        LET q == integer_queue[i]
            second == code[q.pc + 1].second
        IN  is_immediate(second) => q.b_val = extract_number(second)

\* The scan of normal-mode Commit reaches an entry that is done and raised an
\* exception: every entry before it, of the first four, is done without one.
ReachesFault(al) ==
    \E j \in 1..Len(al) :
        /\ j <= CommitWidth
        /\ al[j].done /\ al[j].exception
        /\ \A i \in 1..j - 1 : al[i].done /\ ~al[i].exception

\* C15: (cycle t) a normal-mode Commit step that reaches a faulting entry
\* only marks the exception pending: flag, ExceptionPC, ALUs and Integer Queue
\* stay as they are and the cycle goes on; while the exception is pending the
\* flag stays false and ExceptionPC unchanged, Rename&Dispatch dispatches a
\* DIR that fits, Fetch&Decode fetches, and the snapshot logged has
\* Exception = false; (cycle t+1) the next Commit step raises the flag, sets
\* ExceptionPC to the PC of the head, which is the faulting entry, empties the
\* four ALUs and the Integer Queue and rolls back min(4, |Active List|)
\* entries from the tail.
C15_TwoPhaseException ==
    [][ /\ (/\ stage = "commit" /\ ~next_is_exception /\ ~exception_flag
             /\ ReachesFault(active_list)) =>
              /\ next_is_exception'
              /\ ~exception_flag'
              /\ stage' = "exec2"
              /\ UNCHANGED <<e_pc, ALUs, integer_queue, map_table, busy_bit>>
        /\ (next_is_exception /\ stage # "commit") =>
              /\ next_is_exception'
              /\ ~exception_flag'
              /\ e_pc' = e_pc
              /\ stage' # "AssertionError"
              /\ (/\ stage = "rename_dispatch"
                  /\ Len(dir) <= ActiveListSize - Len(active_list)
                  /\ Len(dir) <= IntegerQueueSize - Len(integer_queue)
                  /\ Len(dir) <= Len(free_list)) =>
                    /\ dir' = <<>>
                    /\ Len(active_list') = Len(active_list) + Len(dir)
              /\ stage = "fetch_decode" =>
                    /\ pc' = pc + Min(DirSize - Len(dir), Len(code) - pc)
                    /\ Len(dir') = Len(dir) + (pc' - pc)
              /\ stage = "check_asserts" =>
                    /\ Len(state_log') = Len(state_log) + 1
                    /\ ~state_log'[Len(state_log')].Exception
                    /\ state_log'[Len(state_log')].ExceptionPC = e_pc
        /\ (next_is_exception /\ stage = "commit") =>
              LET n == Min(CommitWidth, Len(active_list))
              IN  /\ exception_flag'
                  /\ ~next_is_exception'
                  /\ active_list # <<>>
                  /\ active_list[1].done /\ active_list[1].exception
                  /\ e_pc' = active_list[1].pc
                  /\ \A k \in 1..NumALUs : ALUs'[k] = <<None, None>>
                  /\ integer_queue' = <<>>
                  /\ active_list' = SubSeq(active_list, 1, Len(active_list) - n)
                  /\ Len(free_list') = Len(free_list) + n
      ]_vars

\* Cycle t+1 has begun: Commit has just raised the flag for a fault beyond
\* PC 0, emptied a non-empty Integer Queue and rolled back four entries, and
\* the snapshot of cycle t shows no exception.
C15_Witness ==
    /\ stage = "exec2"
    /\ exception_flag
    /\ e_pc > 0
    /\ Len(state_log) > 0
    /\ ~state_log[Len(state_log)].Exception
    /\ state_log[Len(state_log)].IntegerQueue # <<>>
    /\ Len(state_log[Len(state_log)].ActiveList) = Len(active_list) + CommitWidth

\* The m-th index of S, in increasing order.
NthOf(S, m) == CHOOSE i \in S : Cardinality({ j \in S : j < i }) = m - 1

\* C16: an Issue step selects the first min(4, number of ready entries)
\* entries of the Integer Queue, in queue order, that have a_rdy and b_rdy;
\* the k-th selected entry goes into the first latch of ALU k, the other
\* latches keep their content, and the Integer Queue keeps exactly the
\* entries not selected, in their order.
C16_IssueSelection ==
    [][ stage = "issue" =>
          LET iq == integer_queue
              ready == { i \in 1..Len(iq) : iq[i].a_rdy /\ iq[i].b_rdy }
              n == Min(IssueWidth, Cardinality(ready))
              sel == { i \in ready : Cardinality({ j \in ready : j < i }) < n }
              rest == (1..Len(iq)) \ sel
          IN  /\ stage' = "rename_dispatch"
              /\ Cardinality(sel) = n
              /\ \A k \in 1..NumALUs :
                    /\ ALUs'[k][2] = ALUs[k][2]
                    /\ ALUs'[k][1] = IF k <= n THEN <<iq[NthOf(sel, k)]>> ELSE ALUs[k][1]
                    /\ k <= n => ALUs'[k][1][1].a_rdy /\ ALUs'[k][1][1].b_rdy
              /\ Len(integer_queue') = Len(iq) - n
              /\ \A m \in 1..Len(integer_queue') : integer_queue'[m] = iq[NthOf(rest, m)]
      ]_vars

\* Issue has just filled the four ALUs and left in the Integer Queue a ready
\* entry, which it did not select, and entries that are not ready.
C16_Witness ==
    /\ stage = "rename_dispatch"
    /\ \A k \in 1..NumALUs : ALUs[k][1] # None
    /\ \E i \in 1..Len(integer_queue) :
          integer_queue[i].a_rdy /\ integer_queue[i].b_rdy
    /\ \E i \in 1..Len(integer_queue) : ~integer_queue[i].a_rdy

\* C17: where Exec-1 is about to tick the ALUs, the second latch of every ALU
\* is empty, and where Issue is about to push its k selected entries, the
\* first latch of each of the ALUs 1..k is empty.
C17_LatchAssertions ==
    /\ stage = "exec1" => \A k \in 1..NumALUs : ALUs[k][2] = None
    /\ stage = "issue" =>
          LET nready == Cardinality({ i \in 1..Len(integer_queue) :
                                        integer_queue[i].a_rdy /\ integer_queue[i].b_rdy })
          IN  \A k \in 1..Min(IssueWidth, nready) : ALUs[k][1] = None

\* Issue has just pushed an entry into the first latch of an ALU whose second
\* latch holds the entry Exec-1 ticked into it in the same cycle.
C17_Witness ==
    /\ stage = "rename_dispatch"
    /\ \E k \in 1..NumALUs : ALUs[k][1] # None /\ ALUs[k][2] # None

\* The entry al[j] is done now and was in the Active List, not done, in the
\* snapshot before the last one: Exec-2 set its done bit in the last cycle.
DoneInLastCycle(al, j) ==
    /\ al[j].done
    /\ Len(state_log) >= 2
    /\ \E e \in Range(state_log[Len(state_log) - 1].ActiveList) :
          e.pc = al[j].pc /\ ~e.done

\* C18: (cycle t) an instruction Exec-2 writes back is still in the Active
\* List, not done until this step, so the Commit of the same cycle, which ran
\* before, neither retired it nor detected it: a fault pending during Exec-2
\* is that of a head that was done before, and Exec-2 itself retires nothing;
\* (cycle t+1) Commit acts on every entry whose done bit was set in cycle t
\* that is among the first four with all older entries done without
\* exception: it runs in normal mode and retires the entry, or, if the entry
\* raised an exception, marks it pending and leaves it at the head.
C18_Exec2CommitCoordination ==
    [][ /\ stage = "exec2" =>
              /\ \A k \in 1..NumALUs :
                    ALUs[k][2] # None =>
                        \E i \in 1..Len(active_list) :
                            /\ active_list[i].pc = ALUs[k][2][1].pc
                            /\ ~active_list[i].done
                            /\ active_list'[i].done
              /\ next_is_exception =>
                    active_list[1].done /\ active_list[1].exception
              /\ UNCHANGED <<committed_instructions, next_is_exception>>
              /\ Len(active_list') = Len(active_list)
        /\ stage = "commit" =>
              \A j \in 1..Min(CommitWidth, Len(active_list)) :
                  (/\ DoneInLastCycle(active_list, j)
                   /\ \A i \in 1..j - 1 :
                         active_list[i].done /\ ~active_list[i].exception) =>
                      /\ ~next_is_exception /\ ~exception_flag
                      /\ IF active_list[j].exception
                         THEN /\ next_is_exception'
                              /\ committed_instructions' = committed_instructions + j - 1
                              /\ active_list'[1] = active_list[j]
                         ELSE /\ committed_instructions' >= committed_instructions + j
                              /\ \A i \in 1..Len(active_list') :
                                    active_list'[i].pc # active_list[j].pc
      ]_vars

\* Commit has just retired at least two entries whose done bits Exec-2 set in
\* the cycle before.
C18_Witness ==
    /\ stage = "exec2"
    /\ ~exception_flag /\ ~next_is_exception
    /\ Len(state_log) >= 2
    /\ LET last == state_log[Len(state_log)].ActiveList
           prev == state_log[Len(state_log) - 1].ActiveList
       IN  /\ Len(last) >= Len(active_list) + 2
           /\ \A j \in 1..2 :
                 /\ last[j].done
                 /\ \E e \in Range(prev) : e.pc = last[j].pc /\ ~e.done

\* A chain of dependent adds: every instruction is an add (addi included) and
\* reads the destination of the instruction before it.
IsAddChain(c) ==
    /\ Len(c) >= 2
    /\ \A i \in 1..Len(c) :
          /\ c[i].opcode = "add"
          /\ i > 1 => \/ c[i].first = c[i - 1].dest
                       \/ c[i].second = c[i - 1].dest

\* In snapshot s of the log, the instruction at PC p is done (it has written
\* back), respectively waits in the Integer Queue.
DoneAt(s, p) == \E e \in Range(state_log[s].ActiveList) : e.pc = p /\ e.done
InQueueAt(s, p) == \E q \in Range(state_log[s].IntegerQueue) : q.pc = p

HasWritten(p) == \E s \in 1..Len(state_log) : DoneAt(s, p)

\* The snapshot of the cycle in which Exec-2 wrote back the instruction at PC p.
WritebackCycle(p) == MinOf({ s \in 1..Len(state_log) : DoneAt(s, p) })

\* C19: in the log of a chain of dependent adds, an instruction writes back
\* in a later cycle than the one before it; a consumer that waited in the
\* Integer Queue at the start of the cycle in which its producer wrote back is
\* issued in that cycle (it has left the queue by the end of it) and writes
\* back exactly two cycles after its producer.
C19_ChainTiming ==
    (EndOfCycle /\ IsAddChain(code)) =>
        \A p \in 0..Len(code) - 2 :
            HasWritten(p) =>
                LET w == WritebackCycle(p)
                IN  /\ w > 1
                    /\ \A s \in 1..w : ~DoneAt(s, p + 1)
                    /\ InQueueAt(w - 1, p + 1) =>
                          /\ ~InQueueAt(w, p + 1)
                          /\ HasWritten(p + 1) => WritebackCycle(p + 1) = w + 2
                          /\ Len(state_log) >= w + 2 => DoneAt(w + 2, p + 1)

\* A long chain has run to its end: every consumer waited in the Integer
\* Queue for its producer, also those dispatched after a stall.
C19_Witness ==
    /\ stage = "done"
    /\ IsAddChain(code)
    /\ Len(code) >= MinChain
    /\ \A p \in 0..Len(code) - 2 :
          /\ HasWritten(p) /\ HasWritten(p + 1)
          /\ InQueueAt(WritebackCycle(p) - 1, p + 1)
    /\ \E s \in 1..Len(state_log) : Len(state_log[s].ActiveList) = ActiveListSize

\* C20: in every state, so at the end of every cycle and after every dispatch,
\* retire and rollback, each physical id has exactly one owner among the Free
\* List, the Map Table and the old_dest fields: none of the three holds an id
\* twice, no id is in two of them, and together they hold all of 0..63; hence
\* |Free List| = 32 - |Active List|.
C20_RegisterOwnership ==
    LET free == Range(free_list)
        mapped == Range(map_table)
        old == Range(OldDestIds)
    IN  /\ Cardinality(free) = Len(free_list)
        /\ Cardinality(mapped) = NumLogical
        /\ Cardinality(old) = Len(active_list)
        /\ free \cap mapped = {}
        /\ free \cap old = {}
        /\ mapped \cap old = {}
        /\ free \cup mapped \cup old = 0..NumPhysical - 1
        /\ Len(free_list) = NumPhysical - NumLogical - Len(active_list)

\* Registers went through dispatch, retire and rollback: after commits, a
\* tail rollback has returned registers to a Free List that also holds
\* retired ids of the initial mapping, and entries are left to roll back.
C20_Witness ==
    /\ stage = "exec2"
    /\ exception_flag
    /\ committed_instructions > 0
    /\ active_list # <<>>
    /\ \E i \in 1..Len(free_list) : free_list[i] < NumLogical
    /\ free_list[Len(free_list)] >= NumLogical

\* -- the PCs of the instructions held in the Integer Queue and in the latches
\* of the ALUs, as a sequence.
QueuePcs == [i \in 1..Len(integer_queue) |-> integer_queue[i].pc]

RECURSIVE LatchPcs(_)
LatchPcs(k) ==
    IF k > NumALUs THEN <<>>
    ELSE [i \in 1..Len(ALUs[k][1]) |-> ALUs[k][1][i].pc]
         \o [i \in 1..Len(ALUs[k][2]) |-> ALUs[k][2][i].pc]
         \o LatchPcs(k + 1)

InFlightPcs == QueuePcs \o LatchPcs(1)

\* The Active List entries with the PC p that are not done.
PendingEntries(p) ==
    { i \in 1..Len(active_list) : active_list[i].pc = p /\ ~active_list[i].done }

\* C21: at the end of every cycle with Exception = false, every Active List
\* entry that is not done has exactly one instruction with its PC in the
\* Integer Queue or in a latch of an ALU, and every instruction held there has
\* exactly one Active List entry with its PC that is not done; and where
\* Exec-2 is about to run, every instruction in a second latch has exactly
\* one Active List entry with its PC, not done.
C21_NoLostInstruction ==
    /\ (EndOfCycle /\ ~exception_flag) =>
          /\ \A i \in 1..Len(active_list) :
                ~active_list[i].done =>
                    Cardinality({ j \in 1..Len(InFlightPcs) :
                                    InFlightPcs[j] = active_list[i].pc }) = 1
          /\ \A j \in 1..Len(InFlightPcs) :
                Cardinality(PendingEntries(InFlightPcs[j])) = 1
    /\ stage = "exec2" =>
          \A k \in 1..NumALUs :
              ALUs[k][2] # None =>
                  /\ Cardinality(PendingEntries(ALUs[k][2][1].pc)) = 1
                  /\ Cardinality({ i \in 1..Len(active_list) :
                                     active_list[i].pc = ALUs[k][2][1].pc }) = 1

\* The end of the cycle in which Commit marked an exception pending:
\* instructions younger than the faulting one wait in the Integer Queue and
\* sit in a latch, and entries that are done wait behind the head.
C21_Witness ==
    /\ EndOfCycle
    /\ ~exception_flag
    /\ next_is_exception
    /\ committed_instructions > 0
    /\ integer_queue # <<>>
    /\ LatchPcs(1) # <<>>
    /\ \E i \in 1..Len(active_list) : ~active_list[i].done

====
